---- MODULE Spec2Model ----
(***************************************************************************)
(* A model of the Area-51 site providers (XNXX, XVideos, xHamster) and of  *)
(* the xHamster resolver.                                                  *)
(*                                                                         *)
(* Strings that the code inspects (URLs, titles) are sequences of tokens;  *)
(* substring tests, lower-casing, unescaping and prefix/suffix tests are   *)
(* computed token by token.  A fetched HTML page is the sequence of the    *)
(* fragments the code's regular expressions can match.                     *)
(***************************************************************************)
EXTENDS Integers, Sequences, FiniteSets, TLC

\* ------------------------------------------------------------------ bounds

\* Longest HTML page handed to the resolver, in fragments.
MaxFrags == 2

\* Most containers / elements on one listing page.
MaxItems == 3

\* Largest limit argument passed to a listing operation (the smallest is -1).
MaxLimit == 4

\* Largest page argument passed to a listing operation.
MaxPage == 2

\* Stand-in for constants.MAX_VIDEOS, the cap on videos per category.
\* Most matches of one container pattern on an xHamster listing page.
MaxMatches == 2

\* Stand-in for constants.PAGE_ENTRIES, the videos asked of one page.
PAGE_ENTRIES == 2

MAX_VIDEOS == 2

\* ------------------------------------------------------- generic helpers

None == "None"

Range(s) == {s[i] : i \in DOMAIN s}

SeqsUpTo(S, n) == UNION {[1..k -> S] : k \in 0..n}

Min(a, b) == IF a <= b THEN a ELSE b
Max(a, b) == IF a >= b THEN a ELSE b

\* Python's s[:k], for any integer k.
PySlice(s, k) ==
    IF k >= 0 THEN SubSeq(s, 1, Min(k, Len(s)))
    ELSE SubSeq(s, 1, Max(0, Len(s) + k))

\* ------------------------------------------------------------ URL strings

\* str.lower() on one token.
Lower(tok) ==
    CASE tok = "Thumb"    -> "thumb"
      [] tok = "PREVIEW"  -> "preview"
      [] tok = "HTTPS://" -> "https://"
      [] tok = "VIDEO"    -> "video"
      [] tok = ".MP4"     -> ".mp4"
      [] tok = ".M3U8"    -> ".m3u8"
      [] tok = "_TPL_"    -> "_tpl_"
      [] tok = "Sample"   -> "sample"
      [] tok = "PROMO"    -> "promo"
      [] OTHER            -> tok

\* The substrings of a token that the code ever searches for.
Substrings(tok) ==
    CASE tok = "video"    -> {"video"}
      [] tok = "videos/"  -> {"video"}
      [] tok = ".mp4"     -> {"mp4", ".mp4"}
      [] tok = ".m3u8"    -> {"m3u8", ".m3u8"}
      [] tok = "thumb"    -> {"thumb"}
      [] tok = "preview"  -> {"preview"}
      [] tok = "clip"     -> {"clip"}
      [] tok = "_TPL_"    -> {"_TPL_"}
      [] tok = "multi="   -> {"multi="}
      [] tok = "search-video/" -> {"/search-video/"}
      [] tok = "preview-4" -> {"preview"}
      [] tok = "trailer"  -> {"trailer"}
      [] tok = "sample"   -> {"sample"}
      [] tok = "promo"    -> {"promo"}
      [] OTHER            -> {}

\* needle in url
StrIn(needle, u) == \E i \in DOMAIN u : needle \in Substrings(u[i])

\* needle in url.lower()
StrInLower(needle, u) == \E i \in DOMAIN u : needle \in Substrings(Lower(u[i]))

\* url.lower().endswith(suffix)
EndsWithLower(u, suffix) == Len(u) > 0 /\ Lower(u[Len(u)]) = suffix

\* url.startswith("http")
StartsWithHttp(u) == Len(u) > 0 /\ u[1] \in {"https://", "http://"}

\* video_url.replace("\\/", "/").replace("\\\\", "").replace("\\", ""):
\* the JSON-escaped scheme becomes the plain scheme.
Unescape(u) ==
    [i \in DOMAIN u |-> IF u[i] = "https:\\/\\/" THEN "https://" ELSE u[i]]

\* ----------------------------------------------------- external helpers

\* quality_utils.extract_metadata_from_url: the quality named in the URL, "" if none.
extract_metadata_from_url(u) ==
    [quality |-> IF \E i \in DOMAIN u : u[i] = "720p" THEN "720p" ELSE ""]

\* BaseResolver._is_template_url: a URL holding the _TPL_ placeholder and a multi= list.
is_template_url(u) == StrIn("_TPL_", u) /\ StrIn("multi=", u)

\* What BaseResolver._resolve_template_url may return for a template URL:
\* nothing, the URL itself, or the URL with the placeholder filled in.
ExpandTemplate(u) == [i \in DOMAIN u |-> IF u[i] = "_TPL_" THEN "720p" ELSE u[i]]

resolve_template_url_outcomes(u) == {<<>>, u, ExpandTemplate(u)}

\* A source as _parse_html_for_sources builds it: {"url": ..., **metadata}.
Source(u, q) == [url |-> u, quality |-> q]

\* The value of best_source: a source, or None.
NoBest == [found |-> FALSE, src |-> Source(<<>>, "")]

\* What quality_utils.select_best_source may return: one of the sources, or None.
select_best_source_outcomes(sources) ==
    {[found |-> TRUE, src |-> s] : s \in Range(sources)} \cup {NoBest}

\* ------------------------------------------------- HTML seen by the resolver

\* The argument of window.initPlayer(...): whether it is valid JSON once its keys
\* are quoted, whether it has a "sources" key, whether that value can be iterated,
\* and its entries.  An entry is an object (kind "dict") or a string (kind "str");
\* has_url is  "url" in source.
PlayerItem(kind, has_url, u, q) == [kind |-> kind, has_url |-> has_url, url |-> u, quality |-> q]

PlayerData(json_ok, has_sources, iterable, items) ==
    [json_ok |-> json_ok, has_sources |-> has_sources, iterable |-> iterable, items |-> items]

NoPlayer == PlayerData(FALSE, FALSE, FALSE, <<>>)

\* One fragment of a page: a JSON "url"/"label" pair, a window.initPlayer(...) call,
\* a URL in plain text or in an attribute, or markup nothing matches.
JsonFrag(u, label)  == [kind |-> "json",   url |-> u,    label |-> label, player |-> NoPlayer]
PlayerFrag(p)       == [kind |-> "player", url |-> <<>>, label |-> "",    player |-> p]
TextFrag(u)         == [kind |-> "text",   url |-> u,    label |-> "",    player |-> NoPlayer]
OtherFrag           == [kind |-> "other",  url |-> <<>>, label |-> "",    player |-> NoPlayer]

\* The URLs written in a fragment, as they stand in the page text.
FragUrls(f) ==
    CASE f.kind \in {"json", "text"} -> <<f.url>>
      [] f.kind = "player" ->
            LET its == SelectSeq(f.player.items, LAMBDA it : it.kind = "dict" /\ it.has_url)
            IN  [i \in DOMAIN its |-> its[i].url]
      [] OTHER -> <<>>

RECURSIVE RawUrls(_)
RawUrls(html) ==
    IF html = <<>> THEN <<>> ELSE FragUrls(Head(html)) \o RawUrls(Tail(html))

\* re.findall(r'"url":"([^"]+)"[^}]*"label":"([^"]+)"', html, re.IGNORECASE)
json_matches(html) ==
    LET js == SelectSeq(html, LAMBDA f : f.kind = "json")
    IN  [i \in DOMAIN js |-> [url |-> js[i].url, label |-> js[i].label]]

\* r'window\.initPlayer\(\s*({[^}]+})\s*\)': the argument may hold no "}" before
\* its own closing brace, so an argument with a nested object does not match.
player_pattern_matches(f) ==
    /\ f.kind = "player"
    /\ \A i \in DOMAIN f.player.items : f.player.items[i].kind # "dict"

\* re.search(player_json_pattern, html): the first call that matches.
player_match(html) == SelectSeq(html, player_pattern_matches)

\* r'(https?://video[^\s"<>]*\.mp4[^\s"<>]*)' with re.IGNORECASE
mp4_pattern_matches(u) ==
    /\ Len(u) >= 3
    /\ Lower(u[1]) \in {"https://", "http://"}
    /\ Lower(u[2]) = "video"
    /\ \E i \in 3..Len(u) : Lower(u[i]) = ".mp4"

mp4_matches(html) == SelectSeq(RawUrls(html), mp4_pattern_matches)

\* r'(https?://[^\s"<>]*\.m3u8[^\s"<>]*)' with re.IGNORECASE
hls_pattern_matches(u) ==
    /\ Len(u) >= 2
    /\ Lower(u[1]) \in {"https://", "http://"}
    /\ \E i \in 2..Len(u) : Lower(u[i]) = ".m3u8"

hls_matches(html) == SelectSeq(RawUrls(html), hls_pattern_matches)

\* The indicator test without lower-casing the URL.
IsPreviewUrl_case_sensitive(u) ==
    \E k \in {"preview", "trailer", "sample", "promo"} : StrIn(k, u)

\* any(indicator in url.lower() for indicator in ("preview", "trailer", "sample", "promo"))
IsPreviewUrl(u) == \E k \in {"preview", "trailer", "sample", "promo"} : StrInLower(k, u)

SourceUrls(sources) == [i \in DOMAIN sources |-> sources[i].url]

\* --------------------------------------- Resolver._parse_html_for_sources

\* Method 1: JSON url/label pairs.
RECURSIVE Method1(_, _)
Method1(matches, sources) ==
    IF matches = <<>> THEN sources
    ELSE LET m         == Head(matches)
             clean_url == Unescape(m.url)
             quality   == IF m.label # "" /\ m.label # "adaptive" THEN m.label ELSE "Unknown"
             metadata  == extract_metadata_from_url(clean_url)
             q         == IF quality # "Unknown" THEN quality ELSE metadata.quality
             skip      == \/ clean_url = <<>>
                          \/ ~ \E ind \in {"mp4", "m3u8", "video"} : StrInLower(ind, clean_url)
                          \/ StrInLower("thumb", clean_url)
                          \/ IsPreviewUrl(clean_url)
         IN  Method1(Tail(matches),
                     IF skip THEN sources ELSE Append(sources, Source(clean_url, q)))

\* Method 2, the loop over player_data["sources"]; raises TypeError on a string
\* entry that contains "url" (source["url"] on a str).
RECURSIVE Method2Items(_, _)
Method2Items(items, acc) ==
    IF acc.raised \/ items = <<>> THEN acc
    ELSE LET it == Head(items)
             u  == Unescape(it.url)
             md == extract_metadata_from_url(u)
             q  == IF it.quality # "" THEN it.quality ELSE md.quality
         IN  Method2Items(Tail(items),
                 IF ~it.has_url THEN acc
                 ELSE IF it.kind # "dict" THEN [acc EXCEPT !.raised = TRUE]
                 ELSE [acc EXCEPT !.sources = Append(@, Source(u, q))])

\* Method 2: window.initPlayer(...).  json.JSONDecodeError and AttributeError are
\* caught; the TypeError of iterating a value that is no list is not.
Method2(html, sources) ==
    LET pm == player_match(html)
        ok == [raised |-> FALSE, sources |-> sources]
    IN  IF pm = <<>> THEN ok
        ELSE LET p == pm[1].player
             IN  IF ~p.json_ok THEN ok
                 ELSE IF ~p.has_sources THEN ok
                 ELSE IF ~p.iterable THEN [raised |-> TRUE, sources |-> sources]
                 ELSE Method2Items(p.items, ok)

\* Method 3 without the fallback quality.
RECURSIVE Method3_no_fallback(_, _)
Method3_no_fallback(matches, sources) ==
    IF matches = <<>> THEN sources
    ELSE LET u    == Head(matches)
             md   == extract_metadata_from_url(u)
             take == /\ u # <<>>
                     /\ u \notin Range(SourceUrls(sources))
                     /\ ~EndsWithLower(u, ".m3u8")
                     /\ ~StrInLower("thumb", u)
                     /\ ~IsPreviewUrl(u)
         IN  Method3_no_fallback(Tail(matches),
                 IF take THEN Append(sources, Source(u, md.quality)) ELSE sources)

\* Method 3: direct MP4 URLs.
RECURSIVE Method3(_, _)
Method3(matches, sources) ==
    IF matches = <<>> THEN sources
    ELSE LET u    == Head(matches)
             md   == extract_metadata_from_url(u)
             q    == IF md.quality = "" THEN "480p" ELSE md.quality
             take == /\ u # <<>>
                     /\ u \notin Range(SourceUrls(sources))
                     /\ ~EndsWithLower(u, ".m3u8")
                     /\ ~StrInLower("thumb", u)
                     /\ ~IsPreviewUrl(u)
         IN  Method3(Tail(matches), IF take THEN Append(sources, Source(u, q)) ELSE sources)

\* Method 4 run as a fallback only: nothing is added once sources exist.
Method4_fallback_only(matches, sources) ==
    IF sources # <<>> THEN sources
    ELSE [i \in DOMAIN matches |-> Source(matches[i], "adaptive")]

\* Method 4: HLS manifest URLs.
RECURSIVE Method4(_, _)
Method4(matches, sources) ==
    IF matches = <<>> THEN sources
    ELSE LET u    == Head(matches)
             md   == extract_metadata_from_url(u)
             q    == IF md.quality = "" THEN "adaptive" ELSE md.quality
             take == /\ u # <<>>
                     /\ u \notin Range(SourceUrls(sources))
                     /\ ~StrInLower("thumb", u)
                     /\ ~IsPreviewUrl(u)
         IN  Method4(Tail(matches), IF take THEN Append(sources, Source(u, q)) ELSE sources)

\* unique_sources keeping the last source of each URL instead of the first.
RECURSIVE unique_sources_keeps_last(_, _, _)
unique_sources_keeps_last(sources, seen_urls, acc) ==
    IF sources = <<>> THEN acc
    ELSE LET s == Head(sources)
         IN  IF s.url \notin Range(SourceUrls(Tail(sources)))
             THEN unique_sources_keeps_last(Tail(sources), seen_urls, Append(acc, s))
             ELSE unique_sources_keeps_last(Tail(sources), seen_urls, acc)

\* The closing loop: keep a source unless its URL was seen before.
RECURSIVE unique_sources(_, _, _)
unique_sources(sources, seen_urls, acc) ==
    IF sources = <<>> THEN acc
    ELSE LET s == Head(sources)
         IN  IF s.url \notin seen_urls
             THEN unique_sources(Tail(sources), seen_urls \cup {s.url}, Append(acc, s))
             ELSE unique_sources(Tail(sources), seen_urls, acc)

\* The sources each method leaves behind, in the order the code runs them.
AfterMethod1(html) == Method1(json_matches(html), <<>>)
AfterMethod2(html) == Method2(html, AfterMethod1(html))
AfterMethod3(html) == Method3(mp4_matches(html), AfterMethod2(html).sources)
AfterMethod4(html) == Method4(hls_matches(html), AfterMethod3(html))

\* The value of _parse_html_for_sources: kind "list" (possibly empty), "None",
\* or "raised" when the TypeError of method 2 escapes.
parse_html_for_sources(html) ==
    IF html = <<>> THEN [kind |-> "list", sources |-> <<>>]
    ELSE IF AfterMethod2(html).raised THEN [kind |-> "raised", sources |-> <<>>]
    ELSE LET sources == AfterMethod4(html)
         IN  IF sources # <<>>
             THEN [kind |-> "list", sources |-> unique_sources(sources, {}, <<>>)]
             ELSE [kind |-> "None", sources |-> <<>>]

\* ------------------------------------------------- Resolver.resolve_url

\* self.name of the xHamster resolver.
ResolverName == "xhamster"

\* selected_url ignoring the picked source.
selected_url_ignores_best(best, url) == url

\* resolved_url = best_source["url"] if best_source else url
selected_url(best, url) == IF best.found THEN best.src.url ELSE url

\* apply_template without the test that the expansion is non-empty.
apply_template_takes_empty(resolved_url, template) ==
    IF is_template_url(resolved_url) /\ template # resolved_url
    THEN template
    ELSE resolved_url

\* The template step: the expansion replaces the URL when the URL is a template
\* and the expansion is non-empty and different.
apply_template(resolved_url, template) ==
    IF is_template_url(resolved_url) /\ template # <<>> /\ template # resolved_url
    THEN template
    ELSE resolved_url

\* The dictionary resolve_url returns.
resolve_result(resolved_url, quality) ==
    [kind         |-> "dict",
     resolved_url |-> resolved_url,
     resolved     |-> TRUE,
     resolver     |-> ResolverName,
     quality      |-> quality]

ReturnedNone == [kind |-> "None"]
Raised       == [kind |-> "raised"]

\* ------------------------------------------------------------- titles

\* title.lower()
LowerTitle(t) ==
    CASE t = "Beta movie"              -> "beta movie"
      [] t = "Unknown Video"           -> "unknown video"
      [] t = "Video"                   -> "video"
      [] t = "xHamster Video alpha-1"  -> "xhamster video alpha-1"
      [] t = "xHamster Video beta-2"   -> "xhamster video beta-2"
      [] t = "xHamster Video gamma-3"  -> "xhamster video gamma-3"
      [] t = "xHamster Video delta-5"  -> "xhamster video delta-5"
      [] t = "xHamster Video preview-" -> "xhamster video preview-"
      [] t = "xHamster Video unknown"  -> "xhamster video unknown"
      [] OTHER                         -> t

\* The place of a string in Python's string order (code points).
StrRank(t) ==
    CASE t = ""                        -> 0
      [] t = "Beta movie"              -> 1
      [] t = "Unknown Video"           -> 2
      [] t = "Video"                   -> 3
      [] t = "alpha movie"             -> 4
      [] t = "beta movie"              -> 5
      [] t = "gamma clip"              -> 6
      [] t = "unknown video"           -> 7
      [] t = "video"                   -> 8
      [] t = "xHamster Video alpha-1"  -> 9
      [] t = "xHamster Video beta-2"   -> 10
      [] t = "xHamster Video delta-5"  -> 11
      [] t = "xHamster Video gamma-3"  -> 12
      [] t = "xHamster Video preview-" -> 13
      [] t = "xHamster Video unknown"  -> 14
      [] t = "xhamster video alpha-1"  -> 15
      [] t = "xhamster video beta-2"   -> 16
      [] t = "xhamster video delta-5"  -> 17
      [] t = "xhamster video gamma-3"  -> 18
      [] t = "xhamster video preview-" -> 19
      [] t = "xhamster video unknown"  -> 20

\* len(title) > 10
IsLongTitle(t) == t \in {"alpha movie", "Unknown Video"}

\* BaseProvider.sanitize_for_json: these titles hold nothing to strip.
sanitize_for_json(t) == t

\* sort key that compares the titles as they are, without lower().
sort_key_case_sensitive(video) == StrRank(video.title)

\* key=lambda x: x['title'].lower()
sort_key(video) == StrRank(LowerTitle(video.title))

\* list.sort(key=...): stable, ascending.  Insert v after the last element whose
\* key is not greater.
RECURSIVE InsertSorted(_, _)
InsertSorted(sorted, v) ==
    IF sorted = <<>> THEN <<v>>
    ELSE IF sort_key(sorted[Len(sorted)]) <= sort_key(v) THEN Append(sorted, v)
    ELSE Append(InsertSorted(SubSeq(sorted, 1, Len(sorted) - 1), v), sorted[Len(sorted)])

RECURSIVE SortFrom(_, _)
SortFrom(videos, acc) ==
    IF videos = <<>> THEN acc ELSE SortFrom(Tail(videos), InsertSorted(acc, Head(videos)))

sort_by_title(videos) == SortFrom(videos, <<>>)

\* urllib.parse.urljoin(base_url, href) for an absolute href or a href from the root.
urljoin(base_url, href) ==
    IF href # <<>> /\ href[1] = "/" THEN base_url \o Tail(href) ELSE href

\* ------------------------------------------------------------------ XNXX

XnxxBaseUrl == <<"https://", "www.xnxx.com/">>

\* "has_next_page": len(videos) >= 28
XnxxFullPage == 28

\* video_data of Video._get_video_list (XNXX), without provider_id.
xnxx_video_data_no_provider_id(title, href, thumbnail, views) ==
    [title            |-> sanitize_for_json(title),
     duration         |-> "Unknown",
     url              |-> href,
     page_url         |-> href,
     thumbnail        |-> thumbnail,
     views            |-> views,
     site             |-> "xnxx",
     quality          |-> "adaptive",
     format           |-> "mp4",
     needs_resolution |-> TRUE,
     category         |-> "Unknown"]

\* video_data of Video._get_video_list (XNXX)
xnxx_video_data(title, href, thumbnail, views) ==
    [title            |-> sanitize_for_json(title),
     duration         |-> "Unknown",
     url              |-> href,
     page_url         |-> href,
     thumbnail        |-> thumbnail,
     views            |-> views,
     site             |-> "xnxx",
     provider_id      |-> "xnxx",
     quality          |-> "adaptive",
     format           |-> "mp4",
     needs_resolution |-> TRUE,
     category         |-> "Unknown"]

\* A .thumb-block container: the href and title of its ".thumb-under p a" link
\* (<<>> and "" when missing), its thumbnail and views, and whether handling it raises.
XnContainer(href, title, thumbnail, views, raises) ==
    [href |-> href, title |-> title, thumbnail |-> thumbnail, views |-> views, raises |-> raises]

\* The loop over the containers; a container that raises is skipped.
RECURSIVE xnxx_containers(_, _)
xnxx_containers(containers, videos) ==
    IF containers = <<>> THEN videos
    ELSE LET c    == Head(containers)
             href == IF StartsWithHttp(c.href) THEN c.href ELSE urljoin(XnxxBaseUrl, c.href)
         IN  xnxx_containers(Tail(containers),
                 IF c.raises \/ c.href = <<>> \/ c.title = "" THEN videos
                 ELSE Append(videos, xnxx_video_data(c.title, href, c.thumbnail, c.views)))

\* Video._get_video_list (XNXX): resp is what session.get and the page give.
xnxx_get_video_list(resp, page) ==
    IF resp.fetch # "ok"
    THEN [kind |-> "dict", videos |-> <<>>, has_next_page |-> FALSE, page |-> page]
    ELSE LET videos == xnxx_containers(resp.items, <<>>)
         IN  [kind |-> "dict", videos |-> videos,
              has_next_page |-> Len(videos) >= XnxxFullPage, page |-> page]

\* Video.get_media_items (XNXX): result.get("videos", [])
xnxx_get_media_items(resp, page) ==
    [kind |-> "list", videos |-> xnxx_get_video_list(resp, page).videos]

\* --------------------------------------------------------------- XVideos

XvBaseUrl == <<"https://", "www.xvideos.com/">>

\* The dictionary appended by VideoManager._get_video_list (XVideos).
xv_video_data(title, video_url, duration, thumbnail) ==
    [title                   |-> sanitize_for_json(title),
     duration                |-> duration,
     url                     |-> video_url,
     page_url                |-> video_url,
     thumbnail               |-> thumbnail,
     site                    |-> "xvideos",
     provider_id             |-> "xvideos",
     streaming_url           |-> "",
     streaming_sources       |-> <<>>,
     quality                 |-> "adaptive",
     format                  |-> "mp4",
     resolved                |-> FALSE,
     requires_resolution     |-> TRUE,
     resolver                |-> "xvideos",
     needs_search_resolution |-> StrIn("/search-video/", video_url)]

\* A thumb element: the href of its first link (<<>> when missing), its title,
\* duration and thumbnail, and whether handling it raises.
XvElement(href, title, duration, thumbnail, raises) ==
    [href |-> href, title |-> title, duration |-> duration, thumbnail |-> thumbnail,
     raises |-> raises]

\* The loop over video_elements[:limit]; an element that raises is skipped.
RECURSIVE xv_elements(_, _)
xv_elements(elements, videos) ==
    IF elements = <<>> THEN videos
    ELSE LET e == Head(elements)
         IN  xv_elements(Tail(elements),
                 IF e.raises \/ e.href = <<>> \/ e.title = "" THEN videos
                 ELSE Append(videos, xv_video_data(e.title, urljoin(XvBaseUrl, e.href),
                                                   e.duration, e.thumbnail)))

\* VideoManager._get_video_list (XVideos).  resp.fetch is "ok", "get_raises"
\* (session.get or response.text raises: html is never bound) or "parse_raises"
\* (BeautifulSoup raises: html is bound).  After the except block the code reads
\* html: when it is unbound, UnboundLocalError leaves the function.
xv_get_video_list(resp, page, limit) ==
    IF resp.fetch = "get_raises" THEN [kind |-> "raised"]
    ELSE LET videos == IF resp.fetch = "ok"
                       THEN xv_elements(PySlice(resp.items, limit), <<>>)
                       ELSE <<>>
         IN  [kind |-> "dict", videos |-> videos, page |-> page,
              has_next_page |-> resp.has_next, total_results |-> Len(videos)]

\* VideoManager.get_media_items (XVideos): sort by title, then cap at MAX_VIDEOS.
xv_get_media_items(resp, page, limit) ==
    LET r == xv_get_video_list(resp, page, limit)
    IN  IF r.kind = "raised" THEN r
        ELSE LET filtered_videos == sort_by_title(r.videos)
             IN  [kind |-> "list",
                  videos |-> IF Len(filtered_videos) > MAX_VIDEOS
                             THEN PySlice(filtered_videos, MAX_VIDEOS)
                             ELSE filtered_videos]

\* -------------------------------------------------------------- xHamster

XhBaseUrl == <<"https://", "xhamster.com/">>

\* len(video_patterns)
NumPatterns == 5

\* Provider.extract_video_id: the path segment after /videos/, else "unknown".
extract_video_id(url) ==
    IF url = <<>> THEN "unknown"
    ELSE IF \E i \in 1..(Len(url) - 1) : url[i] = "videos/"
    THEN url[(CHOOSE i \in 1..(Len(url) - 1) :
                 url[i] = "videos/" /\ \A j \in 1..(i - 1) : url[j] # "videos/") + 1]
    ELSE "unknown"

\* id[:8]
Prefix8(id) == IF id = "preview-4" THEN "preview-" ELSE id

\* f"xHamster Video {id[:8]}"
GeneratedTitle(url) ==
    LET id == Prefix8(extract_video_id(url))
    IN  CASE id = "alpha-1"  -> "xHamster Video alpha-1"
          [] id = "beta-2"   -> "xHamster Video beta-2"
          [] id = "gamma-3"  -> "xHamster Video gamma-3"
          [] id = "delta-5"  -> "xHamster Video delta-5"
          [] id = "preview-" -> "xHamster Video preview-"
          [] OTHER           -> "xHamster Video unknown"

\* any(keyword in video_url_lower for keyword in skip_keywords)
UrlHasSkipKeyword(u) ==
    \E k \in {"preview", "trailer", "sample", "promo", "teaser", "clip"} : StrInLower(k, u)

\* any(keyword in title_lower for keyword in skip_keywords)
TitleHasSkipKeyword(t) == LowerTitle(t) \in {"gamma clip", "xhamster video preview-"}

\* duration.split(':') with int() of each part: ok is FALSE where int() raises.
Part(n) == [ok |-> TRUE, n |-> n]
NotANumber == [ok |-> FALSE, n |-> 0]

DurationParts(d) ==
    CASE d = "10:00"   -> <<Part(10), Part(0)>>
      [] d = "1:30"    -> <<Part(1), Part(30)>>
      [] d = "0:01:30" -> <<Part(0), Part(1), Part(30)>>
      [] d = "1:01:30" -> <<Part(1), Part(1), Part(30)>>
      [] d = "x:30"    -> <<NotANumber, Part(30)>>
      [] d = "5"       -> <<Part(5)>>
      [] d = "0:0:1:30" -> <<Part(0), Part(0), Part(1), Part(30)>>
      [] OTHER         -> <<>>

\* A duration test that takes the minutes of HH:MM:SS whatever the hours are.
IsShortDuration_ignores_hours(d) ==
    /\ d # ""
    /\ LET parts == DurationParts(d)
       IN  \/ Len(parts) = 2 /\ parts[1].ok /\ parts[1].n < 2
           \/ Len(parts) = 3 /\ parts[2].ok /\ parts[2].n < 2

\* The duration test of _get_video_list: skip a video shorter than two minutes.
IsShortDuration(d) ==
    /\ d # ""
    /\ LET parts == DurationParts(d)
       IN  \/ Len(parts) = 2 /\ parts[1].ok /\ parts[1].n < 2
           \/ /\ Len(parts) = 3
              /\ parts[1].ok /\ parts[1].n = 0
              /\ parts[2].ok /\ parts[2].n < 2

\* One match of a container pattern: the URL found in it (<<>> when none), the
\* title its title patterns give ("Unknown Video" when none does), and the
\* duration and thumbnail extracted from it.
XhMatch(url, title, duration, thumbnail) ==
    [url |-> url, title |-> title, duration |-> duration, thumbnail |-> thumbnail]

\* video_data of Video._get_video_list (xHamster)
xh_video_data(title, duration, url, thumbnail) ==
    [title |-> sanitize_for_json(title), duration |-> duration, url |-> url,
     thumbnail |-> thumbnail, site |-> "xHamster"]

\* A match loop body that records a URL as seen only when it accepts the video.
xh_match_seen_on_accept(m, acc) ==
    IF m.url = <<>> THEN acc
    ELSE LET video_url == IF StartsWithHttp(m.url) THEN m.url ELSE urljoin(XhBaseUrl, m.url)
             title     == IF m.title = "" \/ LowerTitle(m.title) \in {"unknown video", "video", "untitled"}
                          THEN GeneratedTitle(video_url)
                          ELSE m.title
         IN  IF video_url \in acc.seen_urls THEN acc
             ELSE IF UrlHasSkipKeyword(video_url) THEN acc
             ELSE IF TitleHasSkipKeyword(title) THEN acc
             ELSE IF IsShortDuration(m.duration) THEN acc
             ELSE [videos |-> Append(acc.videos,
                                     xh_video_data(title, m.duration, video_url, m.thumbnail)),
                   seen_urls |-> acc.seen_urls \cup {video_url}]

\* The body of "for match in video_matches": acc holds videos and seen_urls.
xh_match(m, acc) ==
    IF m.url = <<>> THEN acc
    ELSE LET video_url == IF StartsWithHttp(m.url) THEN m.url ELSE urljoin(XhBaseUrl, m.url)
             title     == IF m.title = "" \/ LowerTitle(m.title) \in {"unknown video", "video", "untitled"}
                          THEN GeneratedTitle(video_url)
                          ELSE m.title
             seen      == [acc EXCEPT !.seen_urls = @ \cup {video_url}]
         IN  IF video_url \in acc.seen_urls THEN acc
             ELSE IF UrlHasSkipKeyword(video_url) THEN seen
             ELSE IF TitleHasSkipKeyword(title) THEN seen
             ELSE IF IsShortDuration(m.duration) THEN seen
             ELSE [seen EXCEPT !.videos =
                      Append(@, xh_video_data(title, m.duration, video_url, m.thumbnail))]

RECURSIVE xh_matches(_, _)
xh_matches(matches, acc) ==
    IF matches = <<>> THEN acc ELSE xh_matches(Tail(matches), xh_match(Head(matches), acc))

\* A pattern loop that applies every pattern, whatever the earlier ones found.
RECURSIVE xh_patterns_all(_, _)
xh_patterns_all(patterns, acc) ==
    IF patterns = <<>> THEN acc
    ELSE xh_patterns_all(Tail(patterns), xh_matches(Head(patterns), acc))

\* "for i, pattern in enumerate(video_patterns)": stop after a pattern once videos
\* is non-empty.
RECURSIVE xh_patterns(_, _)
xh_patterns(patterns, acc) ==
    IF patterns = <<>> THEN acc
    ELSE LET after == xh_matches(Head(patterns), acc)
         IN  IF after.videos # <<>> THEN after ELSE xh_patterns(Tail(patterns), after)

\* The videos list of _get_video_list before the final slice.
xh_page_videos(resp) ==
    IF resp.fetch # "ok" \/ resp.html_empty THEN <<>>
    ELSE xh_patterns(resp.patterns, [videos |-> <<>>, seen_urls |-> {}]).videos

\* A page as _get_video_list sees it, with its container patterns applied.
xh_parsed(resp) ==
    [fetch |-> resp.fetch, html_empty |-> resp.html_empty,
     videos |-> xh_page_videos(resp), has_next |-> resp.has_next]

\* Video._get_video_list (xHamster)
xh_get_video_list(parsed, page, limit) ==
    IF parsed.fetch # "ok"
    THEN [videos |-> <<>>, page |-> page, has_next_page |-> FALSE, total_results |-> 0]
    ELSE IF parsed.html_empty
    THEN [videos |-> <<>>, next_page |-> FALSE]
    ELSE [videos |-> PySlice(parsed.videos, limit), page |-> page,
          has_next_page |-> parsed.has_next, total_results |-> Len(parsed.videos)]

\* _create_enhanced_video with the resolved stream URL put in "url".
create_enhanced_video_resolves(video, category) ==
    [title            |-> video.title,
     duration         |-> video.duration,
     url              |-> <<"https://", "cdn.xhamster.com/", "video", ".mp4">>,
     page_url         |-> video.url,
     viewkey          |-> extract_video_id(video.url),
     thumbnail        |-> video.thumbnail,
     site             |-> "xhamster",
     category         |-> category,
     provider_id      |-> "xhamster",
     needs_resolution |-> FALSE,
     quality          |-> "Unknown",
     format           |-> "Unknown"]

\* Video._create_enhanced_video
create_enhanced_video(video, category) ==
    LET title == IF video.title = "" \/ video.title \in {"Unknown Title", "Unknown Video", "Video"}
                 THEN GeneratedTitle(video.url)
                 ELSE video.title
    IN  [title            |-> sanitize_for_json(title),
         duration         |-> video.duration,
         url              |-> video.url,
         page_url         |-> video.url,
         viewkey          |-> extract_video_id(video.url),
         thumbnail        |-> video.thumbnail,
         site             |-> "xhamster",
         category         |-> category,
         provider_id      |-> "xhamster",
         needs_resolution |-> TRUE,
         quality          |-> "Unknown",
         format           |-> "Unknown"]

enhance_all(videos, category) ==
    [i \in DOMAIN videos |-> create_enhanced_video(videos[i], category)]

\* Video._get_videos_from_url
xh_get_videos_from_url(parsed, page, category, limit) ==
    LET site_videos == xh_get_video_list(parsed, page, limit).videos
    IN  [kind |-> "list",
         videos |-> IF site_videos = <<>> THEN <<>>
                    ELSE sort_by_title(enhance_all(PySlice(site_videos, limit), category))]

\* A container of the direct scrape: its href (<<>> when none), the text its first
\* matching title pattern gives ("" when none matches), duration and thumbnail.
XhContainer(url, title, duration, thumbnail) ==
    [url |-> url, title |-> title, duration |-> duration, thumbnail |-> thumbnail]

\* "for container in video_containers[:limit * 2]", with its break at limit.
RECURSIVE xh_direct_containers(_, _, _)
xh_direct_containers(containers, limit, video_data_list) ==
    IF containers = <<>> THEN video_data_list
    ELSE LET c == Head(containers)
             video_url == IF StartsWithHttp(c.url) THEN c.url ELSE XhBaseUrl \o Tail(c.url)
             title == IF IsLongTitle(c.title) /\ LowerTitle(c.title) \notin {"video", "watch"}
                      THEN c.title
                      ELSE ""
             next == Append(video_data_list,
                            [title |-> title, duration |-> c.duration,
                             url |-> video_url, thumbnail |-> c.thumbnail])
         IN  IF c.url = <<>> THEN xh_direct_containers(Tail(containers), limit, video_data_list)
             ELSE IF Len(next) >= limit THEN next
             ELSE xh_direct_containers(Tail(containers), limit, next)

\* Video._scrape_category_direct_optimized: [] when the fetch raises.
scrape_category_direct_optimized(resp, limit) ==
    IF resp.fetch # "ok" THEN <<>>
    ELSE sort_by_title(enhance_all(
             xh_direct_containers(PySlice(resp.items, limit * 2), limit, <<>>), "Category"))

\* A loop test that lets the loop run with MAX_VIDEOS videos in hand.
loop_continues_one_more(videos_found) == Len(videos_found) <= MAX_VIDEOS

\* while len(all_videos) < MAX_VIDEOS
loop_continues(videos_found) == Len(videos_found) < MAX_VIDEOS

\* A page step that asks for the same page again.
next_page_same(page) == page

\* current_page += 1
next_page(page) == page + 1

\* site_result.get("has_next_page", True)
has_next_page(site_result) ==
    IF "has_next_page" \in DOMAIN site_result THEN site_result.has_next_page ELSE TRUE

\* A fallback test that also fires when the pages gave fewer than MAX_VIDEOS videos.
runs_direct_fallback_when_short(videos_found) == Len(videos_found) < MAX_VIDEOS

\* "if all_videos: ... return": the direct scrape runs when the pages gave nothing.
runs_direct_fallback(videos_found) == videos_found = <<>>

\* get_media_items that sorts all videos found and then keeps MAX_VIDEOS of them.
xh_media_items_result_sort_first(videos_found, direct_resp, limit) ==
    IF ~runs_direct_fallback(videos_found)
    THEN PySlice(sort_by_title(enhance_all(videos_found, "Category")),
                 Min(Len(videos_found), MAX_VIDEOS))
    ELSE sort_by_title(scrape_category_direct_optimized(direct_resp, limit))

\* Video.get_media_items (xHamster) after the pagination loop.
xh_media_items_result(videos_found, direct_resp, limit) ==
    IF ~runs_direct_fallback(videos_found)
    THEN sort_by_title(enhance_all(
             PySlice(videos_found, Min(Len(videos_found), MAX_VIDEOS)), "Category"))
    ELSE sort_by_title(scrape_category_direct_optimized(direct_resp, limit))

\* --------------------------------------------------------- page metadata

\* The entry of video_urls that names the page itself.
PageEntry(video_url) == [url |-> video_url, quality |-> "adaptive", format |-> "page"]

\* Video.extract_video_page_metadata (xHamster): resp is what session.get gives,
\* resp.metadata what extract_metadata finds in the page.
xh_extract_video_page_metadata(video_url, resp) ==
    IF resp.fetch # "ok"
    THEN [kind |-> "dict", resolved |-> FALSE, video_urls |-> <<>>,
          error |-> "Metadata extraction failed"]
    ELSE IF resp.status_code = 200
    THEN [kind |-> "dict", resolved |-> TRUE, video_urls |-> <<PageEntry(video_url)>>,
          title |-> resp.metadata.title, duration |-> resp.metadata.duration,
          thumbnail |-> "", session |-> "session"]
    ELSE [kind |-> "dict", resolved |-> FALSE, video_urls |-> <<>>,
          error |-> "Could not fetch page for metadata"]

\* resolve_video_url that takes every answered request for a page.
xv_resolve_video_url_any_status(video_url, resp) ==
    IF resp.fetch # "ok"
    THEN [kind |-> "dict", resolved |-> FALSE, video_urls |-> <<>>,
          error |-> "Metadata extraction failed"]
    ELSE [kind |-> "dict", resolved |-> TRUE, video_urls |-> <<PageEntry(video_url)>>,
          title |-> resp.metadata.title, duration |-> resp.metadata.duration,
          thumbnail |-> resp.metadata.thumbnail]

\* VideoManager.resolve_video_url (XVideos)
xv_resolve_video_url(video_url, resp) ==
    IF resp.fetch # "ok"
    THEN [kind |-> "dict", resolved |-> FALSE, video_urls |-> <<>>,
          error |-> "Metadata extraction failed"]
    ELSE IF resp.status_code = 200
    THEN [kind |-> "dict", resolved |-> TRUE, video_urls |-> <<PageEntry(video_url)>>,
          title |-> resp.metadata.title, duration |-> resp.metadata.duration,
          thumbnail |-> resp.metadata.thumbnail]
    ELSE [kind |-> "dict", resolved |-> FALSE, video_urls |-> <<>>,
          error |-> "Could not fetch page for metadata"]

\* --------------------------------------------------------- recorder type

RecorderTypes == {"mp4", "hls_basic", "hls_live", "hls_m4s"}

\* BaseResolver.determine_recorder_type: one of its documented results.
base_determine_recorder_type_outcomes(url) == RecorderTypes

\* determine_recorder_type that looks for '.m3u8' in the URL as it is written.
determine_recorder_type_case_sensitive(url, base) ==
    IF StrIn(".m3u8", url) THEN base ELSE "mp4"

\* Resolver.determine_recorder_type; base is what super() returns for the URL.
determine_recorder_type(url, base) ==
    IF StrInLower(".m3u8", url) THEN base ELSE "mp4"

\* --------------------------------------------------------------- inputs

U_mp4     == <<"https://", "video", "cdn/", "a", ".mp4">>
U_mp4_720 == <<"https://", "video", "cdn/", "720p", ".mp4">>
U_esc     == <<"https:\\/\\/", "video", "cdn/", "a", ".mp4">>
U_upper   == <<"HTTPS://", "VIDEO", "cdn/", "a", ".MP4">>
U_thumb   == <<"https://", "video", "cdn/", "Thumb", ".mp4">>
U_preview == <<"https://", "video", "cdn/", "PREVIEW", ".mp4">>
U_hls     == <<"https://", "cdn/", "a", ".m3u8">>
U_hls_mp4 == <<"https://", "video", "cdn/", "a", ".mp4", ".m3u8">>
U_tpl     == <<"https://", "video", "cdn/", "multi=", "_TPL_", ".mp4", ".m3u8">>
U_jpg     == <<"https://", "cdn/", "a", ".jpg">>
U_page    == <<"https://", "xhamster.com/", "videos/", "alpha-1">>

Frags ==
    { JsonFrag(U_mp4, "720p"), JsonFrag(U_esc, "adaptive"), JsonFrag(U_mp4, "adaptive"),
      JsonFrag(U_thumb, "720p"), JsonFrag(U_jpg, "720p"), JsonFrag(U_tpl, "adaptive"),
      TextFrag(U_mp4), TextFrag(U_mp4_720), TextFrag(U_upper), TextFrag(U_preview),
      TextFrag(U_hls), TextFrag(U_hls_mp4), TextFrag(U_tpl),
      PlayerFrag(PlayerData(TRUE, TRUE, TRUE, <<PlayerItem("dict", TRUE, U_mp4_720, "720p")>>)),
      PlayerFrag(PlayerData(FALSE, FALSE, FALSE, <<>>)),
      PlayerFrag(PlayerData(TRUE, FALSE, FALSE, <<>>)),
      PlayerFrag(PlayerData(TRUE, TRUE, FALSE, <<>>)),
      PlayerFrag(PlayerData(TRUE, TRUE, TRUE, <<PlayerItem("str", TRUE, <<>>, "")>>)),
      PlayerFrag(PlayerData(TRUE, TRUE, TRUE, <<PlayerItem("str", FALSE, <<>>, "")>>)),
      OtherFrag }

\* What auth_tokens.fetch_with_fallback may hand back; <<>> is "no HTML".
Htmls == SeqsUpTo(Frags, MaxFrags)

ResolveUrls == {U_page, U_tpl}

\* URLs that name a thumbnail or a short clip, and an HLS URL naming a quality.
U_trailer   == <<"https://", "video", "cdn/", "trailer", ".mp4">>
U_sample    == <<"https://", "video", "cdn/", "Sample", ".mp4">>
U_promo_hls == <<"https://", "cdn/", "PROMO", ".m3u8">>
U_thumb_hls == <<"https://", "cdn/", "thumb", ".m3u8">>
U_hls_720   == <<"https://", "cdn/", "720p", ".m3u8">>
U_esc_trailer == <<"https:\\/\\/", "video", "cdn/", "trailer", ".mp4">>

\* Fragments of the pages handed to _parse_html_for_sources on its own: those of
\* Frags, and url/label pairs and plain URLs with the labels and the indicator
\* words the method tests.
ParseFrags ==
    Frags \cup
    { JsonFrag(U_preview, "720p"), JsonFrag(U_esc_trailer, "480p"), JsonFrag(U_sample, "adaptive"),
      JsonFrag(U_promo_hls, "1080p"), JsonFrag(U_hls, "1080p"),
      JsonFrag(U_mp4_720, "Unknown"), JsonFrag(U_mp4_720, "adaptive"),
      JsonFrag(U_mp4_720, "Adaptive"), JsonFrag(U_mp4, "Unknown"),
      TextFrag(U_thumb), TextFrag(U_trailer), TextFrag(U_sample),
      TextFrag(U_promo_hls), TextFrag(U_thumb_hls), TextFrag(U_hls_720) }

ParseHtmls == SeqsUpTo(ParseFrags, MaxFrags)

Qualities == {"best", "720p"}

Pages  == 1..MaxPage
Limits == (-1)..MaxLimit

XnContainers ==
    { XnContainer(<<"/", "video-", "a1">>, "alpha movie", "a.jpg", "1k", FALSE),
      XnContainer(<<"https://", "www.xnxx.com/", "video-", "b2">>, "Beta movie", "", "0", FALSE),
      XnContainer(<<"/", "video-", "c3">>, "gamma clip", "c.jpg", "0", FALSE),
      XnContainer(<<>>, "", "", "0", FALSE),
      XnContainer(<<"/", "video-", "d4">>, "alpha movie", "", "0", TRUE) }

\* What session.get gives XNXX: an exception, or a page of containers.
XnxxPages ==
    {[fetch |-> "raise", items |-> <<>>]}
        \cup {[fetch |-> "ok", items |-> items] : items \in SeqsUpTo(XnContainers, MaxItems)}

XvElements ==
    { XvElement(<<"/", "video", "a1">>, "alpha movie", "10:00", "a.jpg", FALSE),
      XvElement(<<"/", "search-video/", "b2">>, "Beta movie", "N/A", "", FALSE),
      XvElement(<<>>, "", "N/A", "", FALSE),
      XvElement(<<"/", "video", "d4">>, "gamma clip", "N/A", "", TRUE) }

\* What XVideos gets: session.get raises, BeautifulSoup raises, or a page of elements.
XvPages ==
    {[fetch |-> "get_raises", items |-> <<>>, has_next |-> FALSE]}
        \cup {[fetch |-> "parse_raises", items |-> <<>>, has_next |-> h] : h \in BOOLEAN}
        \cup {[fetch |-> "ok", items |-> items, has_next |-> h] :
                  items \in SeqsUpTo(XvElements, MaxItems), h \in BOOLEAN}

XhVideoUrl(id)    == <<"https://", "xhamster.com/", "videos/", id>>
XhRelativeUrl(id) == <<"/", "videos/", id>>

XhMatches ==
    { XhMatch(XhVideoUrl("alpha-1"), "alpha movie", "10:00", "a.jpg"),
      XhMatch(XhRelativeUrl("beta-2"), "Beta movie", "", ""),
      XhMatch(XhRelativeUrl("gamma-3"), "Unknown Video", "1:01:30", ""),
      XhMatch(XhRelativeUrl("preview-4"), "alpha movie", "10:00", ""),
      XhMatch(XhRelativeUrl("delta-5"), "gamma clip", "10:00", ""),
      XhMatch(XhRelativeUrl("delta-5"), "alpha movie", "1:30", ""),
      XhMatch(<<>>, "Unknown Video", "", "") }

\* The matches of the five container patterns on a page: the first pattern finds
\* up to MaxMatches containers, and at most one later pattern finds one.
XhPatternMatches ==
    { [k \in 1..NumPatterns |-> IF k = 1 THEN first ELSE IF k = j THEN later ELSE <<>>] :
          first \in SeqsUpTo(XhMatches, MaxMatches),
          j \in 2..NumPatterns,
          later \in {<<>>} \cup {<<m>> : m \in XhMatches} }

NoMatches == [k \in 1..NumPatterns |-> <<>>]

\* What xHamster gets for a listing URL: an exception, undecodable content, or a page.
XhPages ==
    { [fetch |-> "raise", html_empty |-> FALSE, patterns |-> NoMatches, has_next |-> FALSE],
      [fetch |-> "ok", html_empty |-> TRUE, patterns |-> NoMatches, has_next |-> FALSE] }
        \cup {[fetch |-> "ok", html_empty |-> FALSE, patterns |-> p, has_next |-> h] :
                  p \in XhPatternMatches, h \in BOOLEAN}

\* The duration texts a container may show.
Durations == {"", "10:00", "1:30", "0:01:30", "1:01:30", "x:30", "5", "0:0:1:30"}

\* One video listed with each duration text.
XhDurationMatches ==
    {XhMatch(XhRelativeUrl("delta-5"), "alpha movie", d, "") : d \in Durations}

\* Pages whose first pattern finds that video up to MaxMatches times.
XhDurationPages ==
    {[fetch |-> "ok", html_empty |-> FALSE,
      patterns |-> [k \in 1..NumPatterns |-> IF k = 1 THEN first ELSE <<>>],
      has_next |-> FALSE] : first \in SeqsUpTo(XhDurationMatches, MaxMatches)}

\* Every page _get_video_list is run on by itself.
XhListPages == XhPages \cup XhDurationPages

\* The pages with their container patterns applied.
XhParsedPages == {xh_parsed(resp) : resp \in XhPages}

XhContainers ==
    { XhContainer(XhVideoUrl("alpha-1"), "alpha movie", "10:00", "a.jpg"),
      XhContainer(XhRelativeUrl("beta-2"), "Beta movie", "", ""),
      XhContainer(XhRelativeUrl("gamma-3"), "Unknown Video", "1:30", ""),
      XhContainer(XhRelativeUrl("preview-4"), "alpha movie", "", ""),
      XhContainer(<<>>, "", "", "") }

\* The category URL was not requested.
NotRequested == [fetch |-> "unused", items |-> <<>>]

\* What the direct scrape gets for the category URL.
XhDirectPages ==
    {[fetch |-> "raise", items |-> <<>>]}
        \cup {[fetch |-> "ok", items |-> items] : items \in SeqsUpTo(XhContainers, MaxItems)}

XvVideoUrl(id) == <<"https://", "www.xvideos.com/", "video", id>>

\* The video page URLs handed to the page-metadata operations.
MetadataUrls == {XhVideoUrl("alpha-1"), XhVideoUrl("beta-2"), XvVideoUrl("a1")}

\* What extract_metadata finds in a page; "None" where no pattern matches.
Metadatas ==
    { [title |-> "None", duration |-> "None", thumbnail |-> "None"],
      [title |-> "alpha movie", duration |-> "10:00", thumbnail |-> "a.jpg"] }

StatusCodes == {200, 301, 403, 404, 500, 503}

\* What session.get gives for a video page: an exception or a response.
MetadataPages ==
    {[fetch |-> "raise", status_code |-> 0,
      metadata |-> [title |-> "None", duration |-> "None", thumbnail |-> "None"]]}
        \cup {[fetch |-> "ok", status_code |-> c, metadata |-> m] :
                  c \in StatusCodes, m \in Metadatas}

\* The URLs handed to determine_recorder_type.
RecorderUrls ==
    { U_mp4, U_upper, U_hls, U_hls_mp4, U_tpl,
      <<"https://", "cdn/", "a", ".M3U8">>,
      <<"https://", "cdn/", "a", ".m3u8", "?t=1">> }

\* ---------------------------------------------------------------- state

VARIABLES
    pc,                     \* "idle", "xh_loop", "xh_after" or "done"
    call,                   \* the operation called and its arguments
    result,                 \* what the operation returned, or that it raised
    sources,                \* resolve_url: the sources parsed from the page
    best_source,            \* resolve_url: what select_best_source picked
    template_resolved_url,  \* resolve_url: what _resolve_template_url returned
    all_videos,             \* get_media_items (xHamster): videos accumulated
    current_page,           \* get_media_items (xHamster): next page to request
    requested,              \* get_media_items (xHamster): pages requested so far
    resolver_calls          \* calls of Resolver.resolve_url so far

vars == <<pc, call, result, sources, best_source, template_resolved_url,
          all_videos, current_page, requested, resolver_calls>>

resolver_vars == <<sources, best_source, template_resolved_url>>
loop_vars     == <<all_videos, current_page, requested>>

NoCall == [provider |-> "", op |-> ""]

Init ==
    /\ pc = "idle"
    /\ call = NoCall
    /\ result = [kind |-> "none"]
    /\ sources = <<>>
    /\ best_source = NoBest
    /\ template_resolved_url = <<>>
    /\ all_videos = <<>>
    /\ current_page = 0
    /\ requested = <<>>
    /\ resolver_calls = 0

\* Resolver.resolve_url(args)
XhResolveUrl ==
    /\ pc = "idle"
    /\ \E url \in ResolveUrls, quality \in Qualities, html \in Htmls :
         LET parsed == parse_html_for_sources(html)
         IN  /\ call' = [provider |-> "xhamster", op |-> "resolve_url",
                         url |-> url, quality |-> quality, html |-> html]
             /\ IF html # <<>> /\ parsed.kind = "raised"
                THEN /\ result' = Raised
                     /\ sources' = <<>>
                     /\ best_source' = NoBest
                     /\ template_resolved_url' = <<>>
                ELSE IF html # <<>> /\ parsed.sources # <<>>
                THEN \E best \in select_best_source_outcomes(parsed.sources) :
                       LET sel == selected_url(best, url)
                       IN  \E template \in (IF is_template_url(sel)
                                            THEN resolve_template_url_outcomes(sel)
                                            ELSE {<<>>}) :
                             /\ sources' = parsed.sources
                             /\ best_source' = best
                             /\ template_resolved_url' = template
                             /\ result' = resolve_result(apply_template(sel, template), quality)
                ELSE /\ result' = ReturnedNone
                     /\ sources' = <<>>
                     /\ best_source' = NoBest
                     /\ template_resolved_url' = <<>>
    /\ pc' = "done"
    /\ resolver_calls' = resolver_calls + 1
    /\ UNCHANGED loop_vars

\* A listing operation that runs in one step and returns r.
Listing(provider, op, page, limit, resp, r) ==
    /\ call' = [provider |-> provider, op |-> op, page |-> page, limit |-> limit,
                resp |-> resp]
    /\ result' = r
    /\ pc' = "done"
    /\ UNCHANGED <<resolver_vars, loop_vars, resolver_calls>>

\* Video.get_media_items(category, page) of XNXX
XnxxGetMediaItems ==
    /\ pc = "idle"
    /\ \E page \in Pages, resp \in XnxxPages :
         Listing("xnxx", "get_media_items", page, XnxxFullPage, resp,
                 xnxx_get_media_items(resp, page))

\* Video.get_latest_videos(page) of XNXX
XnxxGetLatestVideos ==
    /\ pc = "idle"
    /\ \E page \in Pages, resp \in XnxxPages :
         Listing("xnxx", "get_latest_videos", page, XnxxFullPage, resp,
                 xnxx_get_video_list(resp, page))

\* Video.search_videos(term, page) of XNXX
XnxxSearchVideos ==
    /\ pc = "idle"
    /\ \E page \in Pages, resp \in XnxxPages :
         Listing("xnxx", "search_videos", page, XnxxFullPage, resp,
                 xnxx_get_video_list(resp, page))

\* VideoManager.get_media_items(category, page, limit) of XVideos
XvGetMediaItems ==
    /\ pc = "idle"
    /\ \E page \in Pages, limit \in Limits, resp \in XvPages :
         Listing("xvideos", "get_media_items", page, limit, resp,
                 xv_get_media_items(resp, page, limit))

\* VideoManager.get_latest_videos(page, limit) of XVideos
XvGetLatestVideos ==
    /\ pc = "idle"
    /\ \E page \in Pages, limit \in Limits, resp \in XvPages :
         Listing("xvideos", "get_latest_videos", page, limit, resp,
                 xv_get_video_list(resp, page, limit))

\* VideoManager.search_videos(term, page, limit) of XVideos
XvSearchVideos ==
    /\ pc = "idle"
    /\ \E page \in Pages, limit \in Limits, resp \in XvPages :
         Listing("xvideos", "search_videos", page, limit, resp,
                 xv_get_video_list(resp, page, limit))

\* Video.get_latest_videos(page, limit) of xHamster
XhGetLatestVideos ==
    /\ pc = "idle"
    /\ \E page \in Pages, limit \in Limits, parsed \in XhParsedPages :
         Listing("xhamster", "get_latest_videos", page, limit, parsed,
                 xh_get_videos_from_url(parsed, page, "Latest", limit))

\* Video.search_videos(term, page, limit) of xHamster
XhSearchVideos ==
    /\ pc = "idle"
    /\ \E page \in Pages, limit \in Limits, parsed \in XhParsedPages :
         Listing("xhamster", "search_videos", page, limit, parsed,
                 xh_get_videos_from_url(parsed, page, "Search", limit))

\* Video.get_media_items(category, page, limit) of xHamster, up to its loop.
XhGetMediaItems ==
    /\ pc = "idle"
    /\ \E page \in Pages, limit \in Limits :
         /\ call' = [provider |-> "xhamster", op |-> "get_media_items",
                     page |-> page, limit |-> limit]
         /\ current_page' = page
    /\ all_videos' = <<>>
    /\ requested' = <<>>
    /\ pc' = IF loop_continues(all_videos') THEN "xh_loop" ELSE "xh_after"
    /\ UNCHANGED <<result, resolver_vars, resolver_calls>>

\* One pass of "while len(all_videos) < MAX_VIDEOS".
XhFetchPage ==
    /\ pc = "xh_loop"
    /\ \E parsed \in XhParsedPages :
         LET site_result == xh_get_video_list(parsed, current_page, PAGE_ENTRIES)
             site_videos == site_result.videos
         IN  /\ requested' = Append(requested, [page |-> current_page, fetch |-> parsed.fetch,
                                                found |-> Len(site_videos),
                                                has_next |-> has_next_page(site_result)])
             /\ IF site_videos = <<>>
                THEN /\ pc' = "xh_after"
                     /\ UNCHANGED <<all_videos, current_page>>
                ELSE /\ all_videos' = all_videos \o site_videos
                     /\ IF ~has_next_page(site_result)
                        THEN /\ pc' = "xh_after"
                             /\ UNCHANGED current_page
                        ELSE /\ current_page' = next_page(current_page)
                             /\ pc' = IF loop_continues(all_videos')
                                      THEN "xh_loop" ELSE "xh_after"
    /\ UNCHANGED <<call, result, resolver_vars, resolver_calls>>

\* The rest of get_media_items: cap, enhance and sort, or the direct scrape.
XhReturnMediaItems ==
    /\ pc = "xh_after"
    /\ \E direct_resp \in (IF runs_direct_fallback(all_videos) THEN XhDirectPages
                            ELSE {NotRequested}) :
         result' = [kind |-> "list",
                    videos |-> xh_media_items_result(all_videos, direct_resp, call.limit),
                    direct |-> direct_resp]
    /\ pc' = "done"
    /\ UNCHANGED <<call, resolver_vars, loop_vars, resolver_calls>>

\* Video.extract_video_page_metadata(video_url) of xHamster
XhExtractVideoPageMetadata ==
    /\ pc = "idle"
    /\ \E video_url \in MetadataUrls, resp \in MetadataPages :
         /\ call' = [provider |-> "xhamster", op |-> "extract_video_page_metadata",
                     url |-> video_url, resp |-> resp]
         /\ result' = xh_extract_video_page_metadata(video_url, resp)
    /\ pc' = "done"
    /\ UNCHANGED <<resolver_vars, loop_vars, resolver_calls>>

\* VideoManager.resolve_video_url(video_url) of XVideos
XvResolveVideoUrl ==
    /\ pc = "idle"
    /\ \E video_url \in MetadataUrls, resp \in MetadataPages :
         /\ call' = [provider |-> "xvideos", op |-> "resolve_video_url",
                     url |-> video_url, resp |-> resp]
         /\ result' = xv_resolve_video_url(video_url, resp)
    /\ pc' = "done"
    /\ UNCHANGED <<resolver_vars, loop_vars, resolver_calls>>

\* Resolver.determine_recorder_type(url)
XhDetermineRecorderType ==
    /\ pc = "idle"
    /\ \E url \in RecorderUrls : \E base \in base_determine_recorder_type_outcomes(url) :
         /\ call' = [provider |-> "xhamster", op |-> "determine_recorder_type",
                     url |-> url, base |-> base]
         /\ result' = [kind |-> "str", value |-> determine_recorder_type(url, base)]
    /\ pc' = "done"
    /\ UNCHANGED <<resolver_vars, loop_vars, resolver_calls>>

Next ==
    \/ XhResolveUrl
    \/ XnxxGetMediaItems
    \/ XnxxGetLatestVideos
    \/ XnxxSearchVideos
    \/ XvGetMediaItems
    \/ XvGetLatestVideos
    \/ XvSearchVideos
    \/ XhGetLatestVideos
    \/ XhSearchVideos
    \/ XhGetMediaItems
    \/ XhFetchPage
    \/ XhReturnMediaItems
    \/ XhExtractVideoPageMetadata
    \/ XvResolveVideoUrl
    \/ XhDetermineRecorderType

Spec == Init /\ [][Next]_vars

\* Video._get_video_list(url, page, limit) of xHamster, called by itself.
XhGetVideoList ==
    /\ pc = "idle"
    /\ \E page \in {1, MaxPage}, limit \in Limits, resp \in XhListPages :
         /\ call' = [provider |-> "xhamster", op |-> "_get_video_list",
                     page |-> page, limit |-> limit, resp |-> resp]
         /\ result' = xh_get_video_list(xh_parsed(resp), page, limit)
    /\ pc' = "done"
    /\ UNCHANGED <<resolver_vars, loop_vars, resolver_calls>>

PageNext ==
    \/ XhGetVideoList

PageSpec == Init /\ [][PageNext]_vars

\* Resolver._parse_html_for_sources(html), called by itself.
XhParseHtmlForSources ==
    /\ pc = "idle"
    /\ \E html \in ParseHtmls :
         /\ call' = [provider |-> "xhamster", op |-> "_parse_html_for_sources",
                     html |-> html]
         /\ result' = parse_html_for_sources(html)
    /\ pc' = "done"
    /\ UNCHANGED <<resolver_vars, loop_vars, resolver_calls>>

ParseNext ==
    \/ XhParseHtmlForSources

ParseSpec == Init /\ [][ParseNext]_vars

\* The operations on one video page or one stream URL.
VideoPageNext ==
    \/ XhExtractVideoPageMetadata
    \/ XvResolveVideoUrl
    \/ XhDetermineRecorderType

VideoPageSpec == Init /\ [][VideoPageNext]_vars

\* get_media_items of xHamster alone, run to its return: a call that has started
\* goes on to fetch its next page and to return.
LoopNext ==
    \/ XhGetMediaItems
    \/ XhFetchPage
    \/ XhReturnMediaItems

LoopSpec ==
    /\ Init
    /\ [][LoopNext]_vars
    /\ WF_vars(XhFetchPage)
    /\ WF_vars(XhReturnMediaItems)

\* ------------------------------------------------------ resolver claims

ResolveDone == pc = "done" /\ call.op = "resolve_url"

ResolveReturnedDict == ResolveDone /\ result.kind = "dict"

\* The index in seq of the first source whose URL is u.
FirstIndexOf(seq, u) ==
    CHOOSE k \in DOMAIN seq : seq[k].url = u /\ \A j \in 1..(k - 1) : seq[j].url # u

\* The first extraction method (1..4) that appended a source with URL u.
MethodOf(u, html) ==
    IF u \in Range(SourceUrls(AfterMethod1(html))) THEN 1
    ELSE IF u \in Range(SourceUrls(AfterMethod2(html).sources)) THEN 2
    ELSE IF u \in Range(SourceUrls(AfterMethod3(html))) THEN 3
    ELSE 4

\* C2: the returned source list holds no URL twice; of the sources extracted with
\* one URL the first extracted is the one kept; and the kept sources stand in the
\* order in which their first occurrences were extracted.
C2_NoDuplicateSources ==
    ResolveReturnedDict =>
        LET extracted == AfterMethod4(call.html)
        IN  /\ \A i, j \in DOMAIN sources : i # j => sources[i].url # sources[j].url
            /\ \A i \in DOMAIN sources :
                   /\ sources[i].url \in Range(SourceUrls(extracted))
                   /\ sources[i] = extracted[FirstIndexOf(extracted, sources[i].url)]
            /\ \A i, j \in DOMAIN sources :
                   i < j => FirstIndexOf(extracted, sources[i].url)
                              < FirstIndexOf(extracted, sources[j].url)

\* C2 witness: a URL was extracted twice, with different qualities, and one source is kept.
C2_Witness ==
    /\ ResolveReturnedDict
    /\ LET extracted == AfterMethod4(call.html)
       IN  /\ Len(extracted) > Len(sources)
           /\ \E i, j \in DOMAIN extracted :
                  i < j /\ extracted[i].url = extracted[j].url
                        /\ extracted[i].quality # extracted[j].quality

\* C3: when a source list was extracted and select_best_source picked a source,
\* resolved_url is that source's URL or what the template resolution made of it;
\* the input URL stands in only when nothing was picked.
C3_ResolvedUrlIsBestSource ==
    ResolveReturnedDict =>
        /\ best_source.found =>
               /\ result.resolved_url \in {best_source.src.url, template_resolved_url}
               /\ result.resolved_url # <<>>
               /\ best_source.src \in Range(sources)
        /\ (result.resolved_url = call.url /\ best_source.found)
               => best_source.src.url = call.url
        /\ ~best_source.found =>
               result.resolved_url \in {call.url, template_resolved_url}

\* C3 witness: a source was picked and its URL, not the page URL, is returned.
C3_Witness ==
    /\ ResolveReturnedDict
    /\ best_source.found
    /\ result.resolved_url = best_source.src.url
    /\ result.resolved_url # call.url
    /\ Len(sources) >= 2

AcceptedMp4(h) ==
    {u \in Range(mp4_matches(h)) :
        ~EndsWithLower(u, ".m3u8") /\ ~StrInLower("thumb", u) /\ ~IsPreviewUrl(u)}

AcceptedHls(h) ==
    {u \in Range(hls_matches(h)) : ~StrInLower("thumb", u) /\ ~IsPreviewUrl(u)}

C5_TemplateReplacesOnlyWhenDifferent ==
    ResolveReturnedDict =>
        LET selected == IF best_source.found THEN best_source.src.url ELSE call.url
            replaces == /\ is_template_url(selected)
                        /\ template_resolved_url # <<>>
                        /\ template_resolved_url # selected
        IN  /\ replaces => result.resolved_url = template_resolved_url
            /\ ~replaces => result.resolved_url = selected

\* C5 witness: a template URL was selected and its expansion replaced it.
C5_Witness ==
    /\ ResolveReturnedDict
    /\ best_source.found
    /\ is_template_url(best_source.src.url)
    /\ result.resolved_url = template_resolved_url
    /\ result.resolved_url # best_source.src.url

\* Some fragment of the page yields a source by one of the four methods.
SomeSourceExtractable(h) ==
    \/ AfterMethod1(h) # <<>>
    \/ AcceptedMp4(h) # {}
    \/ AcceptedHls(h) # {}

\* C10 as claimed: resolve_url returns None exactly when there is no HTML or no
\* source can be extracted from it, and otherwise returns a result with
\* resolved = True and resolver = "xhamster"; it never does anything else.
C10_NoneOrResolved ==
    ResolveDone =>
        /\ result.kind \in {"None", "dict"}
        /\ result.kind = "None" <=> (call.html = <<>> \/ ~SomeSourceExtractable(call.html))
        /\ result.kind = "dict" => result.resolved = TRUE /\ result.resolver = "xhamster"

\* ------------------------------------------------------- listing claims

ListingOps == {"get_latest_videos", "search_videos", "get_media_items"}

ListingDone == pc = "done" /\ call.op \in ListingOps

\* The records a finished listing operation returned; none when it raised.
ListingVideos == IF result.kind \in {"list", "dict"} THEN result.videos ELSE <<>>

MediaItemsDone == ListingDone /\ call.op = "get_media_items"

\* Fetching or parsing the page of a one-step listing operation raised.
FetchOrParseRaised == "resp" \in DOMAIN call /\ call.resp.fetch # "ok"

\* C1: a listing operation of any provider whose fetch or parse raised returns an
\* empty video result, and no listing operation ends by raising to its caller.
C1_ListingCatchesExceptions ==
    ListingDone =>
        /\ result.kind # "raised"
        /\ FetchOrParseRaised => result.videos = <<>>

FlaggedForResolution(video) ==
    \/ "needs_resolution" \in DOMAIN video /\ video.needs_resolution
    \/ "requires_resolution" \in DOMAIN video /\ video.requires_resolution

\* C6: every record a listing operation returns has url equal to page_url and is
\* flagged needs_resolution or requires_resolution, and the resolver has not been
\* called when the listing operation returns.
C6_RecordsHandOffPageUrl ==
    ListingDone =>
        /\ resolver_calls = 0
        /\ \A i \in DOMAIN ListingVideos :
               /\ ListingVideos[i].url = ListingVideos[i].page_url
               /\ FlaggedForResolution(ListingVideos[i])

\* C6 witness: xHamster's get_media_items returned records built from page URLs.
C6_Witness ==
    /\ MediaItemsDone
    /\ call.provider = "xhamster"
    /\ Len(ListingVideos) >= 2
    /\ ListingVideos[1].page_url = XhVideoUrl("alpha-1")

CommonFields ==
    {"title", "duration", "url", "page_url", "thumbnail", "site", "provider_id",
     "quality", "format"}

FieldsOf(provider) ==
    CASE provider = "xnxx"     -> CommonFields \cup {"views", "needs_resolution", "category"}
      [] provider = "xhamster" -> CommonFields \cup {"viewkey", "needs_resolution", "category"}
      [] provider = "xvideos"  ->
             CommonFields \cup {"streaming_url", "streaming_sources", "resolved",
                                "requires_resolution", "resolver", "needs_search_resolution"}

\* C7 as stated: every record of every provider has one and the same set of field
\* names, the one xHamster's records have.
C7_SameFieldNames ==
    ListingDone =>
        \A i \in DOMAIN ListingVideos : DOMAIN ListingVideos[i] = FieldsOf("xhamster")

\* C7: every record of every provider has the nine common fields, and besides them
\* exactly the fields of its own provider, which differ between the providers.
C7_CommonFieldsOnly ==
    ListingDone =>
        \A i \in DOMAIN ListingVideos :
            /\ CommonFields \subseteq DOMAIN ListingVideos[i]
            /\ DOMAIN ListingVideos[i] = FieldsOf(call.provider)
            /\ \A other \in {"xnxx", "xhamster", "xvideos"} \ {call.provider} :
                   DOMAIN ListingVideos[i] # FieldsOf(other)

\* C7 witness: XNXX returned a record, whose fields are not those of xHamster.
C7_Witness ==
    /\ ListingDone
    /\ call.provider = "xnxx"
    /\ ListingVideos # <<>>
    /\ "views" \in DOMAIN ListingVideos[1]
    /\ "viewkey" \notin DOMAIN ListingVideos[1]

\* The place of a title's lower-cased value in string order.
LowerTitleRank(title) == StrRank(LowerTitle(title))

IsSortedByLowerTitle(videos) ==
    \A i, j \in DOMAIN videos :
        i < j => LowerTitleRank(videos[i].title) <= LowerTitleRank(videos[j].title)

\* The titles of the XNXX containers that give a video, in page order.
RECURSIVE XnxxPageTitles(_)
XnxxPageTitles(containers) ==
    IF containers = <<>> THEN <<>>
    ELSE LET c == Head(containers)
         IN  (IF c.raises \/ c.href = <<>> \/ c.title = "" THEN <<>> ELSE <<c.title>>)
                 \o XnxxPageTitles(Tail(containers))

\* C8 as stated: get_media_items of every provider returns its list in
\* non-decreasing order of lower-cased title.
C8_MediaItemsSortedEverywhere ==
    MediaItemsDone => IsSortedByLowerTitle(ListingVideos)

\* C8: get_media_items of xHamster and of XVideos returns its list in
\* non-decreasing order of lower-cased title; get_media_items of XNXX returns the
\* videos in the order of the page.
C8_MediaItemsSorted ==
    MediaItemsDone =>
        /\ call.provider \in {"xhamster", "xvideos"} => IsSortedByLowerTitle(ListingVideos)
        /\ call.provider = "xnxx" =>
               [i \in DOMAIN ListingVideos |-> ListingVideos[i].title]
                   = XnxxPageTitles(call.resp.items)

\* C8 witness: XVideos found "Beta movie" before "alpha movie" on the page and
\* returned them the other way round.
C8_Witness ==
    /\ MediaItemsDone
    /\ call.provider = "xvideos"
    /\ Len(call.resp.items) >= 2
    /\ call.resp.items[1].title = "Beta movie"
    /\ call.resp.items[2].title = "alpha movie"
    /\ Len(ListingVideos) = 2
    /\ ListingVideos[1].title = "alpha movie"
    /\ ListingVideos[2].title = "Beta movie"

\* C9: get_media_items of xHamster and of XVideos returns at most MAX_VIDEOS
\* videos, whatever the page and limit arguments and whichever path returns.
C9_AtMostMaxVideos ==
    MediaItemsDone /\ call.provider \in {"xhamster", "xvideos"} =>
        Len(ListingVideos) <= MAX_VIDEOS

\* ------------------------------------------------- page-metadata claims

MetadataOps == {"extract_video_page_metadata", "resolve_video_url"}

MetadataDone == pc = "done" /\ call.op \in MetadataOps

\* The request was answered with HTTP status 200.
AnsweredOk == call.resp.fetch = "ok" /\ call.resp.status_code = 200

\* C11: a page-metadata operation never ends by raising; answered with status 200 it
\* returns resolved = TRUE and exactly one video_urls entry, the input page URL with
\* format "page"; on any other status or on an exception it returns resolved = FALSE,
\* no video_urls entry and an error message.
C11_PageMetadataNeverStream ==
    MetadataDone =>
        /\ result.kind = "dict"
        /\ IF AnsweredOk
           THEN /\ result.resolved
                /\ Len(result.video_urls) = 1
                /\ result.video_urls[1].url = call.url
                /\ result.video_urls[1].format = "page"
                /\ "error" \notin DOMAIN result
           ELSE /\ ~result.resolved
                /\ result.video_urls = <<>>
                /\ "error" \in DOMAIN result

\* C11 witness: XVideos answered with status 200 and the operation returned the
\* page URL it was given.
C11_Witness ==
    /\ MetadataDone
    /\ call.provider = "xvideos"
    /\ AnsweredOk
    /\ result.resolved
    /\ result.video_urls = <<PageEntry(call.url)>>

\* ------------------------------------------------- recorder-type claims

RecorderTypeDone == pc = "done" /\ call.op = "determine_recorder_type"

\* url.lower() holds '.m3u8'.
HoldsM3u8(url) == \E i \in DOMAIN url : url[i] \in {".m3u8", ".M3U8"}

\* C12: determine_recorder_type returns 'mp4' for a URL without '.m3u8' in any
\* case, returns what the base resolver returns for a URL with it, and always
\* returns one of 'mp4', 'hls_basic', 'hls_live', 'hls_m4s'.
C12_RecorderType ==
    RecorderTypeDone =>
        /\ ~HoldsM3u8(call.url) => result.value = "mp4"
        /\ HoldsM3u8(call.url) => result.value = call.base
        /\ result.value \in {"mp4", "hls_basic", "hls_live", "hls_m4s"}

\* C12 witness: an upper-case .M3U8 URL got the base resolver's answer.
C12_Witness ==
    /\ RecorderTypeDone
    /\ \E i \in DOMAIN call.url : call.url[i] = ".M3U8"
    /\ call.base = "hls_basic"
    /\ result.value = "hls_basic"

\* ---------------------------------------------------- pagination claims

XhMediaItemsCalled == call.provider = "xhamster" /\ call.op = "get_media_items"

XhMediaItemsDone == pc = "done" /\ XhMediaItemsCalled

\* The videos the first k requested pages gave.
RECURSIVE FoundUpTo(_, _)
FoundUpTo(pages, k) == IF k = 0 THEN 0 ELSE FoundUpTo(pages, k - 1) + pages[k].found

\* C13: the pagination loop of get_media_items never requests more than MAX_VIDEOS
\* pages, every request but the last has added a video, and a call that entered
\* the loop returns.
C13_LoopTerminates ==
    /\ [](XhMediaItemsCalled =>
            /\ Len(requested) <= MAX_VIDEOS
            /\ \A i \in 1..(Len(requested) - 1) : requested[i].found >= 1)
    /\ (pc = "xh_loop") ~> (pc = "done")

\* C13 witness: a call returned after requesting MAX_VIDEOS pages.
C13_Witness ==
    /\ XhMediaItemsDone
    /\ Len(requested) = MAX_VIDEOS
    /\ MAX_VIDEOS > 1

\* C14: the pages requested are call.page, call.page + 1, ... without gap or
\* repetition, and every page requested before another one gave at least one
\* video, had has_next_page true and left fewer than MAX_VIDEOS videos accumulated.
C14_ConsecutivePages ==
    XhMediaItemsCalled =>
        /\ \A i \in DOMAIN requested : requested[i].page = call.page + i - 1
        /\ \A i \in 1..(Len(requested) - 1) :
               /\ requested[i].found >= 1
               /\ requested[i].has_next
               /\ FoundUpTo(requested, i) < MAX_VIDEOS
        /\ pc \in {"xh_after", "done"} /\ requested # <<>> =>
               LET last == requested[Len(requested)]
               IN  \/ last.found = 0
                   \/ ~last.has_next
                   \/ FoundUpTo(requested, Len(requested)) >= MAX_VIDEOS
        /\ pc = "xh_loop" => current_page = call.page + Len(requested)

\* C14 witness: two pages were requested and the second one, though it had a next
\* page, ended the loop by filling the list.
C14_Witness ==
    /\ XhMediaItemsDone
    /\ Len(requested) = 2
    /\ requested[2].page = call.page + 1
    /\ requested[2].has_next
    /\ requested[2].found >= 1

\* How often a page URL occurs among the records of videos.
CountUrl(videos, u, field) == Cardinality({i \in DOMAIN videos : videos[i][field] = u})

\* result holds exactly the videos kept, each as often as kept holds it.
SameVideosAs(kept) ==
    /\ Len(ListingVideos) = Len(kept)
    /\ \A i \in DOMAIN kept :
           CountUrl(ListingVideos, kept[i].url, "page_url") = CountUrl(kept, kept[i].url, "url")

\* C15: when the pages gave n > 0 videos, get_media_items returns the first
\* min(n, MAX_VIDEOS) of them in page order, sorted by lower-cased title.
C15_CapBeforeSort ==
    XhMediaItemsDone /\ all_videos # <<>> =>
        /\ SameVideosAs(SubSeq(all_videos, 1, Min(Len(all_videos), MAX_VIDEOS)))
        /\ IsSortedByLowerTitle(ListingVideos)

\* C15 witness: more than MAX_VIDEOS videos were found, and one that was cut off
\* sorts before one that was kept.
C15_Witness ==
    /\ XhMediaItemsDone
    /\ Len(all_videos) > MAX_VIDEOS
    /\ Len(ListingVideos) = MAX_VIDEOS
    /\ \E i \in 1..MAX_VIDEOS, j \in (MAX_VIDEOS + 1)..Len(all_videos) :
           /\ LowerTitleRank(all_videos[j].title) < LowerTitleRank(all_videos[i].title)
           /\ CountUrl(ListingVideos, all_videos[j].url, "page_url") = 0

\* The direct scrape was run.
DirectRan == result.direct.fetch # "unused"

\* C16: the direct scrape runs exactly when the pages gave no video; with videos
\* from the pages the result holds only those; and when the pages and the direct
\* scrape both give nothing, or the direct request raises, the result is empty.
C16_FallbackOnlyWhenEmpty ==
    XhMediaItemsDone =>
        /\ DirectRan <=> all_videos = <<>>
        /\ all_videos # <<>> =>
               /\ ListingVideos # <<>>
               /\ \A i \in DOMAIN ListingVideos :
                      CountUrl(all_videos, ListingVideos[i].page_url, "url") >= 1
        /\ /\ all_videos = <<>>
           /\ \/ result.direct.fetch = "raise"
              \/ \A i \in DOMAIN result.direct.items : result.direct.items[i].url = <<>>
           => ListingVideos = <<>>

\* C16 witness: the pages gave nothing, the direct scrape ran and found videos.
C16_Witness ==
    /\ XhMediaItemsDone
    /\ all_videos = <<>>
    /\ requested # <<>>
    /\ DirectRan
    /\ result.direct.fetch = "ok"
    /\ ListingVideos # <<>>

\* ------------------------------------------------ _get_video_list claims

GetVideoListDone == pc = "done" /\ call.op = "_get_video_list"

\* The page was fetched and decoded, so that the container patterns were applied.
PageParsed == call.resp.fetch = "ok" /\ ~call.resp.html_empty

\* The URLs seen once the first k patterns have all been applied.
RECURSIVE SeenAfter(_, _)
SeenAfter(resp, k) ==
    IF k = 0 THEN {}
    ELSE xh_matches(resp.patterns[k],
                    [videos |-> <<>>, seen_urls |-> SeenAfter(resp, k - 1)]).seen_urls

\* The videos pattern k accepts when the patterns before it accepted none.
YieldOf(resp, k) ==
    xh_matches(resp.patterns[k],
               [videos |-> <<>>, seen_urls |-> SeenAfter(resp, k - 1)]).videos

\* The first pattern, in the listed order, that accepts a video.
FirstYielding(resp) ==
    {k \in 1..NumPatterns :
        YieldOf(resp, k) # <<>> /\ \A j \in 1..(k - 1) : YieldOf(resp, j) = <<>>}

\* C17: the videos of a page are those accepted from the first pattern, in the
\* listed order, that accepts any; no video of a later pattern is among them, and
\* the page has no videos when no pattern accepts one.
C17_FirstYieldingPatternOnly ==
    GetVideoListDone /\ PageParsed =>
        IF FirstYielding(call.resp) = {}
        THEN result.videos = <<>> /\ result.total_results = 0
        ELSE \A k \in FirstYielding(call.resp) :
                 /\ result.total_results = Len(YieldOf(call.resp, k))
                 /\ result.videos = PySlice(YieldOf(call.resp, k), call.limit)

\* C17 witness: the first pattern accepted a video, a later pattern holds a video
\* that would have been accepted too, and only the first pattern's are counted.
C17_Witness ==
    /\ GetVideoListDone
    /\ PageParsed
    /\ FirstYielding(call.resp) = {1}
    /\ \E j \in 2..NumPatterns : YieldOf(call.resp, j) # <<>>
    /\ result.total_results = Len(YieldOf(call.resp, 1))
    /\ result.videos # <<>>

\* The duration texts that read as less than two minutes: MM:SS with MM < 2, and
\* HH:MM:SS with HH = 0 and MM < 2.
ShortDurations == {"1:30", "0:01:30"}

HasPreviewKeyword(u) == \E i \in DOMAIN u : u[i] \in {"preview-4", "PREVIEW", "preview", "clip"}

\* C19: no video returned by get_media_items, get_latest_videos or search_videos
\* of xHamster has a URL with a preview keyword.
C19_NoPreviewUrls ==
    ListingDone /\ call.provider = "xhamster" =>
        \A i \in DOMAIN ListingVideos : ~HasPreviewKeyword(ListingVideos[i].url)

\* All matches of a page, in the order of the patterns.
RECURSIVE FlatMatches(_, _)
FlatMatches(resp, k) ==
    IF k = 0 THEN <<>> ELSE FlatMatches(resp, k - 1) \o resp.patterns[k]

\* The absolute URL of a match.
MatchUrl(m) == IF StartsWithHttp(m.url) THEN m.url ELSE XhBaseUrl \o Tail(m.url)

\* The title a match is listed under.
MatchTitle(m) ==
    IF LowerTitle(m.title) \in {"", "unknown video", "video", "untitled"}
    THEN GeneratedTitle(MatchUrl(m))
    ELSE m.title

\* A filter of _get_video_list rejects the match.
RejectedByFilter(m) ==
    \/ UrlHasSkipKeyword(MatchUrl(m))
    \/ TitleHasSkipKeyword(MatchTitle(m))
    \/ IsShortDuration(m.duration)

\* The URLs whose first match on the page a filter rejects.
RejectedFirst(resp) ==
    LET flat == FlatMatches(resp, NumPatterns)
    IN  {MatchUrl(flat[i]) : i \in {i \in DOMAIN flat :
            /\ flat[i].url # <<>>
            /\ RejectedByFilter(flat[i])
            /\ \A j \in 1..(i - 1) : flat[j].url = <<>> \/ MatchUrl(flat[j]) # MatchUrl(flat[i])}}

ParseDone == pc = "done" /\ call.op = "_parse_html_for_sources"

ParseReturnedSources == ParseDone /\ result.kind = "list" /\ result.sources # <<>>

\* The URL contains, in any case, one of the words the method filters on.
HasFilteredWord(u) ==
    \E k \in {"thumb", "preview", "trailer", "sample", "promo"} : StrInLower(k, u)

\* C21: no source returned by _parse_html_for_sources, whichever method produced
\* it, has a URL containing thumb, preview, trailer, sample or promo in any case.
C21_NoThumbOrPreviewSource ==
    ParseDone =>
        \A i \in DOMAIN result.sources : ~HasFilteredWord(result.sources[i].url)

\* C21 witness: the page held a URL with such a word beside one without, and the
\* method returned sources.
C21_Witness ==
    /\ ParseReturnedSources
    /\ \E u \in Range(RawUrls(call.html)) : HasFilteredWord(Unescape(u))

\* The label of the first url/label pair whose unescaped URL is u.
FirstLabel(u, html) ==
    LET js == SelectSeq(json_matches(html), LAMBDA m : Unescape(m.url) = u)
    IN  js[1].label

\* The quality named in the URL itself, "" if none.
UrlQuality(u) == extract_metadata_from_url(u).quality

\* The quality of a source of method 3 or 4: the URL's own, else the fallback.
FallbackQuality(s, html) ==
    IF UrlQuality(s.url) # "" THEN UrlQuality(s.url)
    ELSE IF MethodOf(s.url, html) = 3 THEN "480p" ELSE "adaptive"

\* The second and third sentences of C22: sources of the direct-MP4 and HLS
\* methods carry the URL's quality, else 480p and adaptive, and so never "".
DirectAndHlsQuality ==
    \A i \in DOMAIN result.sources :
        LET s == result.sources[i]
        IN  MethodOf(s.url, call.html) \in {3, 4} =>
                /\ s.quality = FallbackQuality(s, call.html)
                /\ s.quality # ""

\* C22 as stated: a source from a url/label pair carries the label unless the
\* label is empty or "adaptive", and then the URL's quality; a direct MP4 source
\* without a URL quality gets 480p, an HLS source without one gets adaptive.
C22_LabelUnlessEmptyOrAdaptive ==
    ParseDone =>
        /\ \A i \in DOMAIN result.sources :
               LET s     == result.sources[i]
                   label == FirstLabel(s.url, call.html)
               IN  MethodOf(s.url, call.html) = 1 =>
                       s.quality = IF label \notin {"", "adaptive"} THEN label
                                   ELSE UrlQuality(s.url)
        /\ DirectAndHlsQuality

\* C22: a source from a url/label pair carries the label unless the label is
\* empty, "adaptive" or "Unknown", and then the URL's quality; a direct MP4 source
\* without a URL quality gets 480p, an HLS source without one gets adaptive, so
\* the sources of these two methods never have an empty quality.
C22_QualityLabelling ==
    ParseDone =>
        /\ \A i \in DOMAIN result.sources :
               LET s     == result.sources[i]
                   label == FirstLabel(s.url, call.html)
               IN  MethodOf(s.url, call.html) = 1 =>
                       s.quality = IF label \notin {"", "adaptive", "Unknown"} THEN label
                                   ELSE UrlQuality(s.url)
        /\ DirectAndHlsQuality

\* C22 witness: the returned sources hold one from a pair labelled "Unknown" whose
\* URL names a quality, and one direct MP4 source that got the fallback 480p.
C22_Witness ==
    /\ ParseReturnedSources
    /\ \E i, j \in DOMAIN result.sources :
          /\ MethodOf(result.sources[i].url, call.html) = 1
          /\ FirstLabel(result.sources[i].url, call.html) = "Unknown"
          /\ result.sources[i].quality = "720p"
          /\ MethodOf(result.sources[j].url, call.html) = 3
          /\ result.sources[j].quality = "480p"

====
